---- MODULE Spec2Model ----
(***************************************************************************)
(* Emergency triage queue of omswaroop2003/Health-Care.                    *)
(*                                                                         *)
(* Two back ends are modelled.  The MongoDB application (main_mongo.py)    *)
(* serves api/v1/patients_mongo.py and api/v1/triage_mongo.py; its         *)
(* handlers are coroutines, so every `await` on the document store is a    *)
(* point where another request may run.  The SQL application (main.py)     *)
(* serves api/v1/patients.py and api/v1/triage.py; its handlers talk to a  *)
(* SQLAlchemy session and other requests see their writes at db.commit().  *)
(*                                                                         *)
(* Priority scores have at most one decimal in the source; the model holds *)
(* them in tenths of a point (score * 10) so that they stay integers.      *)
(* Time is counted in ticks of TickSeconds seconds.                        *)
(***************************************************************************)
EXTENDS Integers, Sequences, FiniteSets, TLC

(* ---------------------------- bounds ---------------------------------- *)
MaxNewPatients == 1
NumProcs == 2
MaxOps == 2
MaxTicks == 2
MaxSqlPatients == 2
MaxSqlOps == 3
MaxQueueOps == 5
MaxEvaluations == 2
MaxTransitionOps == 2
NumClients == 2

(* ------------------------ program constants --------------------------- *)
TickSeconds == 30
None == -1
QueueLimit == 50

WAITING == "waiting"
IN_TREATMENT == "in_treatment"
COMPLETED == "completed"
DISCHARGED == "discharged"
QueueStatus == {WAITING, IN_TREATMENT, COMPLETED, DISCHARGED}
Terminal == {COMPLETED, DISCHARGED}

Procs == 1..NumProcs
\* ids 1 and 2 are the sample patients, the others are handed out on registration
SamplePatients == 2
PatientIds == 1..(SamplePatients + MaxNewPatients)
\* levels the classifier is made to return, and the registration data used
EsiInputs == {2, 3}
AgeInputs == {40}
PainInputs == {None, 4}
EsiFilterInputs == {0, 3}
SqlPatientIds == 1..MaxSqlPatients
SqlPainInputs == {4, 8}
ModelConfidences == {40, 95}
StatusInputs == QueueStatus

VARIABLES
    now,          \* clock (datetime.utcnow), in ticks
    ops,          \* number of requests still to arrive
    nextId,       \* next fresh document id
    patients,     \* collection "patients": id -> document
    queue,        \* collection "queue_entries", in natural (insertion) order
    assessments,  \* collection "triage_assessments"
    alerts,       \* collection "alerts"
    pc,           \* per request task: the await it is suspended at
    loc,          \* per request task: the handler's local variables
    watch,        \* per listing task: entries waiting ever since its query
    last,         \* the response returned by the step just taken, if any
    snapshot,     \* classifier and scorer runs: the input they are given
    result        \* classifier and scorer runs: what they returned

vars == <<now, ops, nextId, patients, queue, assessments, alerts, pc, loc,
          watch, last, snapshot, result>>
store == <<patients, queue, assessments, alerts>>

(* --------------------------- documents -------------------------------- *)
NoEntry ==
    [id |-> 0, patient_id |-> 0, esi_level |-> 0, priority_score |-> 0,
     status |-> "none", estimated_treatment_time |-> 0,
     entered_queue |-> None, treatment_started |-> None,
     treatment_completed |-> None, actual_treatment_time |-> None]

NoPatient ==
    [id |-> 0, age |-> 0, pain_scale |-> 0, esi_level |-> 0,
     priority_score |-> 0, arrival_time |-> None]

\* QueueEntry(patient_id, esi_level, priority_score, estimated_treatment_time)
\* with the field defaults of the document class
QueueEntry(id, patient_id, esi_level, priority_score, est, t) ==
    [id |-> id, patient_id |-> patient_id, esi_level |-> esi_level,
     priority_score |-> priority_score, status |-> WAITING,
     estimated_treatment_time |-> est,
     entered_queue |-> t, treatment_started |-> None,
     treatment_completed |-> None, actual_treatment_time |-> None]

\* Patient(...) as create_patient builds it: no triage result yet
Patient(id, age, pain_scale, t) ==
    [id |-> id, age |-> age, pain_scale |-> pain_scale, esi_level |-> 0,
     priority_score |-> 0, arrival_time |-> t]

TriageAssessment(patient_id, esi_level, assessor_type) ==
    [patient_id |-> patient_id, esi_level |-> esi_level,
     assessor_type |-> assessor_type]

Alert(id, patient_id, alert_type, severity) ==
    [id |-> id, patient_id |-> patient_id, alert_type |-> alert_type,
     severity |-> severity, acknowledged |-> FALSE, acknowledged_at |-> None]

NoAlert == Alert(0, 0, "none", "none")

\* no classifier or scorer run is modelled in this behaviour
NoSnapshot == [kind |-> "none"]

NoResult == [kind |-> "none"]

\* the statistics of the dashboard; average_wait_time in tenths of a minute
NoStats ==
    [total_patients |-> 0, waiting_patients |-> 0, critical_patients |-> 0,
     esi_distribution |-> [level \in 1..5 |-> 0], average_wait_time |-> 0]

LocInit ==
    [patient_id |-> 0, status |-> "none", esi_filter |-> 0,
     read |-> NoEntry, entry |-> NoEntry, patient |-> NoPatient,
     esi |-> 0, score |-> 0, old_esi |-> 0, est |-> 0, announced |-> FALSE,
     alert |-> NoAlert, stats |-> NoStats,
     list |-> <<>>, idx |-> 0, out |-> <<>>]

NoResponse ==
    [op |-> "none", patient_id |-> 0, code |-> 0, found |-> FALSE,
     read |-> NoEntry, saved |-> NoEntry, queue_position |-> 0,
     items |-> <<>>, listed |-> {}, waited |-> {}, stats |-> NoStats]

\* the response of a handler that looked up the queue entry of patient_id:
\* found tells whether there was one, read is the document it read and
\* saved the document it wrote (NoEntry when it wrote nothing)
Response(op, patient_id, code, found, read, saved) ==
    [NoResponse EXCEPT !.op = op, !.patient_id = patient_id, !.code = code,
                       !.found = found, !.read = read, !.saved = saved]

(* ------------------------ store primitives ---------------------------- *)
\* QueueEntry.find_one(QueueEntry.patient_id == patient_id): the first
\* matching document in natural order, or NoEntry
find_one(q, patient_id) ==
    LET Match(e) == e.patient_id = patient_id
        m == SelectSeq(q, Match)
    IN IF m = <<>> THEN NoEntry ELSE m[1]

\* a write that does not match on the document id
save_first(q, doc) == [i \in 1..Len(q) |-> IF i = 1 THEN doc ELSE q[i]]

\* Document.save(): update the stored document with this id from the local
\* copy, every field included, or insert the document if none has its id
save(q, doc) ==
    IF \E i \in 1..Len(q) : q[i].id = doc.id
    THEN [i \in 1..Len(q) |-> IF q[i].id = doc.id THEN doc ELSE q[i]]
    ELSE Append(q, doc)

\* Collection.find(patient_id == id).delete()
delete_by_patient(q, patient_id) ==
    LET Keep(e) == e.patient_id # patient_id
    IN SelectSeq(q, Keep)

\* Patient.get(id)
Patient_get(ps, id) == IF id \in DOMAIN ps THEN ps[id] ELSE NoPatient

\* patient.save()
Patient_save(ps, doc) ==
    [i \in DOMAIN ps \cup {doc.id} |-> IF i = doc.id THEN doc ELSE ps[i]]

\* patient.delete()
Patient_delete(ps, id) == [i \in DOMAIN ps \ {id} |-> ps[i]]

\* minutes rounded up to the next whole minute
MinutesCeil(ticks) == (ticks * TickSeconds + 59) \div 60

\* int(timedelta.total_seconds() / 60): whole minutes, truncated toward zero
Minutes(ticks) ==
    IF ticks >= 0 THEN (ticks * TickSeconds) \div 60
    ELSE 0 - (((0 - ticks) * TickSeconds) \div 60)

\* Python `value or default`: None and 0 both give the default
or_default(value, default) ==
    IF value = None \/ value = 0 THEN default ELSE value

Min(a, b) == IF a < b THEN a ELSE b
Max(a, b) == IF a > b THEN a ELSE b

(* --------------------------- scoring ---------------------------------- *)
\* a table that gives the two lowest levels the same base score
base_scores_flat(esi_level) ==
    CASE esi_level = 1 -> 100
      [] esi_level = 2 -> 80
      [] esi_level = 3 -> 60
      [] OTHER -> 20

base_scores(esi_level) ==
    CASE esi_level = 1 -> 100
      [] esi_level = 2 -> 80
      [] esi_level = 3 -> 60
      [] esi_level = 4 -> 40
      [] esi_level = 5 -> 20
      [] OTHER -> 20

\* SimpleAITriageEngine.calculate_priority_score, in tenths of a point
calculate_priority_score(esi_level, wait_time, age, pain_level) ==
    10 * base_scores(esi_level)
    + Min(wait_time * 5, 200)
    + (IF age >= 65 THEN 50 ELSE IF age <= 2 THEN 100 ELSE 0)
    + 20 * pain_level

\* treatment_times.get(esi_level, 60) of create_patient
treatment_times(esi_level) ==
    CASE esi_level = 1 -> 0
      [] esi_level = 2 -> 10
      [] esi_level = 3 -> 30
      [] esi_level = 4 -> 60
      [] esi_level = 5 -> 120
      [] OTHER -> 60

(* --------------------------- ranking ---------------------------------- *)
\* sort=[("esi_level", 1), ("priority_score", -1), ("entered_queue", 1)]:
\* a is placed strictly before b
SortsBefore(a, b) ==
    \/ a.esi_level < b.esi_level
    \/ a.esi_level = b.esi_level /\ a.priority_score > b.priority_score
    \/ /\ a.esi_level = b.esi_level
       /\ a.priority_score = b.priority_score
       /\ a.entered_queue < b.entered_queue

\* the rearrangements of n documents
Orderings(n) ==
    {f \in [1..n -> 1..n] : \A i, j \in 1..n : i # j => f[i] # f[j]}

\* the orders in which the sorted query may return the documents of
\* sequence m; documents that compare equal come in any order
Sorted(m) ==
    LET n == Len(m)
    IN {[i \in 1..n |-> m[f[i]]] : f \in
          {g \in Orderings(n) :
              \A i, j \in 1..n : i < j => ~SortsBefore(m[g[j]], m[g[i]])}}

\* the first `limit` documents
Limit(s, limit) == IF Len(s) <= limit THEN s ELSE SubSeq(s, 1, limit)

\* QueueEntry.find(query, limit=limit, sort=[...]).to_list() of get_queue
find_queue(q, esi_level, limit) ==
    LET Match(e) == e.status = WAITING /\ (esi_level # 0 => e.esi_level = esi_level)
    IN {Limit(s, limit) : s \in Sorted(SelectSeq(q, Match))}

\* ids of the documents a get_queue query with this filter matches
Matching(q, esi_level) ==
    {q[i].id : i \in {j \in 1..Len(q) :
        q[j].status = WAITING /\ (esi_level # 0 => q[j].esi_level = esi_level)}}

\* QueueEntry.find(status == WAITING, priority_score >= score).count()
count_at_least(q, score) ==
    Cardinality({i \in 1..Len(q) : q[i].status = WAITING /\ q[i].priority_score >= score})

(* ----------------------------- Init ----------------------------------- *)
\* create_sample_data: on a first start the lifespan hook stores two
\* patients with hard-coded triage results, each with a waiting queue entry
sample_patients ==
    <<[Patient(1, 45, 7, 0) EXCEPT !.esi_level = 2, !.priority_score = 85],
      [Patient(2, 28, 4, 0) EXCEPT !.esi_level = 4, !.priority_score = 32]>>

sample_queue ==
    [i \in 1..SamplePatients |->
        QueueEntry(i, sample_patients[i].id, sample_patients[i].esi_level,
                   sample_patients[i].priority_score,
                   IF sample_patients[i].esi_level <= 2 THEN 60 ELSE 30, 0)]

Init ==
    /\ now = 0
    /\ ops = MaxOps
    /\ nextId = [patient |-> SamplePatients + 1, entry |-> SamplePatients + 1,
                 alert |-> 1]
    /\ patients = sample_patients
    /\ queue = sample_queue
    /\ assessments = <<>>
    /\ alerts = <<>>
    /\ pc = [p \in Procs |-> "idle"]
    /\ loc = [p \in Procs |-> LocInit]
    /\ watch = [p \in Procs |-> {}]
    /\ last = NoResponse
    /\ snapshot = NoSnapshot
    /\ result = NoResult

\* the clock advances between any two steps
Tick ==
    /\ now < MaxTicks
    /\ now' = now + 1
    /\ last' = NoResponse
    /\ UNCHANGED <<ops, nextId, store, pc, loc, watch, snapshot, result>>

ListingPcs == {"queue_get"}

\* entries that have been waiting, and matched the listing's filter, at
\* every moment since the listing task ran its query
NextWatch(pc2, loc2, q2) ==
    [r \in Procs |->
        IF pc2[r] \in ListingPcs
        THEN IF pc[r] \in ListingPcs
             THEN watch[r] \cap Matching(q2, loc2[r].esi_filter)
             ELSE Matching(q2, loc2[r].esi_filter)
        ELSE {}]

\* task p is suspended at await h with local variables l (queue' is set)
Move(p, h, l) ==
    /\ pc' = [pc EXCEPT ![p] = h]
    /\ loc' = [loc EXCEPT ![p] = l]
    /\ watch' = NextWatch(pc', loc', queue')
    /\ UNCHANGED <<snapshot, result>>

\* task p moves to its next await without answering yet
Goto(p, h, l) ==
    /\ Move(p, h, l)
    /\ last' = NoResponse

\* task p returns response r to the caller
Return(p, r) ==
    /\ Move(p, "idle", LocInit)
    /\ last' = r

\* a request arrives at an idle task; tasks are interchangeable, so the
\* request is given to the first idle one
Arrive(p) ==
    /\ pc[p] = "idle"
    /\ \A r \in Procs : r < p => pc[r] # "idle"
    /\ ops > 0
    /\ ops' = ops - 1

\* a request arrives and task p runs its handler up to await h
Begin(p, h, l) ==
    /\ Arrive(p)
    /\ Goto(p, h, l)

\* a request arrives and task p answers it without suspending
BeginReturn(p, r) ==
    /\ Arrive(p)
    /\ Return(p, r)

(* --------------- triage_mongo.py: start_patient_treatment ------------- *)
\* `raise HTTPException(status_code=404)` inside the handler's try block is
\* caught by its own `except Exception` and re-raised with status 500
start_patient_treatment(p) ==
    \E patient_id \in PatientIds :
      LET queue_entry == find_one(queue, patient_id) IN
      /\ UNCHANGED <<now, nextId, store>>
      /\ IF queue_entry = NoEntry
         THEN BeginReturn(p, Response("start_treatment", patient_id, 500,
                                      FALSE, NoEntry, NoEntry))
         ELSE /\ Begin(p, "start_save",
                       [LocInit EXCEPT !.patient_id = patient_id,
                                       !.read = queue_entry,
                                       !.entry = [queue_entry EXCEPT
                                                    !.status = IN_TREATMENT,
                                                    !.treatment_started = now]])

\* await queue_entry.save()
start_patient_treatment_save(p) ==
    /\ pc[p] = "start_save"
    /\ queue' = save(queue, loc[p].entry)
    /\ Goto(p, "start_get", loc[p])
    /\ UNCHANGED <<now, ops, nextId, patients, assessments, alerts>>

\* patient = await Patient.get(patient_id); return the success body
start_patient_treatment_get(p) ==
    /\ pc[p] = "start_get"
    /\ UNCHANGED <<now, ops, nextId, store>>
    /\ Return(p, Response("start_treatment", loc[p].patient_id, 200, TRUE,
                          loc[p].read, loc[p].entry))

(* -------------- triage_mongo.py: complete_patient_treatment ----------- *)
complete_patient_treatment(p) ==
    \E patient_id \in PatientIds :
      LET queue_entry == find_one(queue, patient_id)
          done == [queue_entry EXCEPT !.status = COMPLETED,
                                      !.treatment_completed = now]
      IN
      /\ UNCHANGED <<now, nextId, store>>
      /\ IF queue_entry = NoEntry
         THEN BeginReturn(p, Response("complete_treatment", patient_id, 500,
                                      FALSE, NoEntry, NoEntry))
         ELSE /\ Begin(p, "complete_save",
                       [LocInit EXCEPT
                          !.patient_id = patient_id,
                          !.read = queue_entry,
                          !.entry =
                             IF queue_entry.treatment_started # None
                             THEN [done EXCEPT !.actual_treatment_time =
                                     Minutes(now - queue_entry.treatment_started)]
                             ELSE done])

complete_patient_treatment_save(p) ==
    /\ pc[p] = "complete_save"
    /\ queue' = save(queue, loc[p].entry)
    /\ Goto(p, "complete_get", loc[p])
    /\ UNCHANGED <<now, ops, nextId, patients, assessments, alerts>>

complete_patient_treatment_get(p) ==
    /\ pc[p] = "complete_get"
    /\ UNCHANGED <<now, ops, nextId, store>>
    /\ Return(p, Response("complete_treatment", loc[p].patient_id, 200, TRUE,
                          loc[p].read, loc[p].entry))

(* ------------------ triage_mongo.py: discharge_patient ---------------- *)
discharge_patient(p) ==
    \E patient_id \in PatientIds :
      LET queue_entry == find_one(queue, patient_id) IN
      /\ UNCHANGED <<now, nextId, store>>
      /\ IF queue_entry = NoEntry
         THEN BeginReturn(p, Response("discharge", patient_id, 500,
                                      FALSE, NoEntry, NoEntry))
         ELSE /\ Begin(p, "discharge_save",
                       [LocInit EXCEPT !.patient_id = patient_id,
                                       !.read = queue_entry,
                                       !.entry = [queue_entry EXCEPT
                                                    !.status = DISCHARGED]])

discharge_patient_save(p) ==
    /\ pc[p] = "discharge_save"
    /\ queue' = save(queue, loc[p].entry)
    /\ Goto(p, "discharge_get", loc[p])
    /\ UNCHANGED <<now, ops, nextId, patients, assessments, alerts>>

\* patient = await Patient.get(patient_id); `patient.status = "discharged"`
\* assigns a field the Patient document class does not declare, which the
\* document base class rejects with ValueError: the handler answers 500
\* whenever the patient exists, after the queue entry has been saved
discharge_patient_get(p) ==
    /\ pc[p] = "discharge_get"
    /\ UNCHANGED <<now, ops, nextId, store>>
    /\ IF Patient_get(patients, loc[p].patient_id) # NoPatient
       THEN Return(p, Response("discharge", loc[p].patient_id, 500, TRUE,
                               loc[p].read, loc[p].entry))
       ELSE Return(p, Response("discharge", loc[p].patient_id, 200, TRUE,
                               loc[p].read, loc[p].entry))

(* ---------------- patients_mongo.py: update_patient_status ------------ *)
update_patient_status(p) ==
    \E patient_id \in PatientIds, status \in StatusInputs :
      LET queue_entry == find_one(queue, patient_id)
          e == [queue_entry EXCEPT !.status = status]
      IN
      /\ UNCHANGED <<now, nextId, store>>
      /\ IF queue_entry = NoEntry
         THEN BeginReturn(p, Response("update_status", patient_id, 500,
                                      FALSE, NoEntry, NoEntry))
         ELSE /\ Begin(p, "status_save",
                       [LocInit EXCEPT
                          !.patient_id = patient_id,
                          !.status = status,
                          !.read = queue_entry,
                          !.entry =
                             IF status = IN_TREATMENT
                             THEN [e EXCEPT !.treatment_started = now]
                             ELSE IF status \in {COMPLETED, DISCHARGED}
                                  THEN [e EXCEPT !.treatment_completed = now]
                                  ELSE e])

update_patient_status_save(p) ==
    /\ pc[p] = "status_save"
    /\ queue' = save(queue, loc[p].entry)
    /\ Goto(p, "status_notify", loc[p])
    /\ UNCHANGED <<now, ops, nextId, patients, assessments, alerts>>

\* await connection_manager.notify_queue_change(...); return
update_patient_status_notify(p) ==
    /\ pc[p] = "status_notify"
    /\ UNCHANGED <<now, ops, nextId, store>>
    /\ Return(p, Response("update_status", loc[p].patient_id, 200, TRUE,
                          loc[p].read, loc[p].entry))

(* ------------------- patients_mongo.py: create_patient ---------------- *)
\* await patient.save() inserts the patient; predict_esi_level and
\* calculate_priority_score then run on the request data.  The loaded
\* statistical model is opaque: it may return any level.
create_patient(p) ==
    \E age \in AgeInputs, pain_scale \in PainInputs, esi_level \in EsiInputs :
      LET patient == Patient(nextId.patient, age, pain_scale, now)
          priority_score ==
              calculate_priority_score(esi_level, 0, age, or_default(pain_scale, 0))
      IN
      /\ nextId.patient <= SamplePatients + MaxNewPatients
      /\ nextId' = [nextId EXCEPT !.patient = @ + 1]
      /\ patients' = Patient_save(patients, patient)
      /\ UNCHANGED <<now, queue, assessments, alerts>>
      /\ Begin(p, "create_update",
               [LocInit EXCEPT !.patient_id = patient.id,
                               !.patient = [patient EXCEPT
                                              !.esi_level = esi_level,
                                              !.priority_score = priority_score],
                               !.esi = esi_level,
                               !.score = priority_score])

\* await patient.save() with the triage result
create_patient_update(p) ==
    /\ pc[p] = "create_update"
    /\ patients' = Patient_save(patients, loc[p].patient)
    /\ UNCHANGED <<now, ops, nextId, queue, assessments, alerts>>
    /\ Goto(p, "create_assessment", loc[p])

\* await assessment.save(); the QueueEntry is then constructed, which stamps
\* entered_queue with utcnow()
create_patient_assessment(p) ==
    /\ pc[p] = "create_assessment"
    /\ assessments' = Append(assessments,
                             TriageAssessment(loc[p].patient_id, loc[p].esi, "ai_model"))
    /\ UNCHANGED <<now, ops, nextId, patients, queue, alerts>>
    /\ Goto(p, "create_enqueue",
            [loc[p] EXCEPT !.entry =
               QueueEntry(0, loc[p].patient_id, loc[p].esi, loc[p].score,
                          treatment_times(loc[p].esi), now)])

\* await queue_entry.save() inserts the entry under a fresh id
create_patient_enqueue(p) ==
    /\ pc[p] = "create_enqueue"
    /\ queue' = Append(queue, [loc[p].entry EXCEPT !.id = nextId.entry])
    /\ nextId' = [nextId EXCEPT !.entry = @ + 1]
    /\ UNCHANGED <<now, ops, patients, assessments, alerts>>
    /\ Goto(p, IF loc[p].esi <= 2 THEN "create_alert" ELSE "create_count",
            [loc[p] EXCEPT !.entry.id = nextId.entry])

\* await voice_service.announce_critical_patient(...); await alert.save().
\* The announcement answers True when the speech was generated and False
\* when the voice service is disabled or the speech request failed
\* (_generate_speech catches its exceptions); create_patient drops the
\* answer and saves the alert in either case.
create_patient_alert(p) ==
    /\ pc[p] = "create_alert"
    /\ alerts' = Append(alerts,
                        Alert(nextId.alert, loc[p].patient_id, "critical_patient",
                              IF loc[p].esi = 1 THEN "critical" ELSE "high"))
    /\ nextId' = [nextId EXCEPT !.alert = @ + 1]
    /\ UNCHANGED <<now, ops, patients, queue, assessments>>
    /\ \E announced \in BOOLEAN :
          Goto(p, "create_count", [loc[p] EXCEPT !.announced = announced])

\* await notify_patient_update(...); queue_position = await
\* QueueEntry.find(status == WAITING, priority_score >= priority_score).count();
\* the response reports queue_position + 1
create_patient_count(p) ==
    /\ pc[p] = "create_count"
    /\ UNCHANGED <<now, ops, nextId, store>>
    /\ Return(p, [Response("create_patient", loc[p].patient_id, 200, TRUE,
                           NoEntry, loc[p].entry)
                  EXCEPT !.queue_position = count_at_least(queue, loc[p].score) + 1])

(* ------------------- triage_mongo.py: reassess_patient ---------------- *)
\* patient = await Patient.get(patient_id); a missing patient raises 404,
\* which the handler's `except Exception` turns into 500.  The vitals are
\* read with vitals.get(key, default), which returns a stored None: the
\* classifier and calculate_priority_score then raise TypeError (500 too)
reassess_patient(p) ==
    \E patient_id \in PatientIds, esi_level \in EsiInputs :
      LET patient == Patient_get(patients, patient_id)
          priority_score ==
              calculate_priority_score(esi_level, 0, patient.age, patient.pain_scale)
      IN
      /\ UNCHANGED <<now, nextId, store>>
      /\ IF patient = NoPatient \/ patient.pain_scale = None
         THEN BeginReturn(p, Response("reassess", patient_id, 500, FALSE,
                                      NoEntry, NoEntry))
         ELSE /\ Begin(p, "reassess_patient_save",
                       [LocInit EXCEPT
                          !.patient_id = patient_id,
                          !.old_esi = patient.esi_level,
                          !.esi = esi_level,
                          !.score = priority_score,
                          !.patient = [patient EXCEPT
                                         !.esi_level = esi_level,
                                         !.priority_score = priority_score]])

\* await patient.save()
reassess_patient_save(p) ==
    /\ pc[p] = "reassess_patient_save"
    /\ patients' = Patient_save(patients, loc[p].patient)
    /\ UNCHANGED <<now, ops, nextId, queue, assessments, alerts>>
    /\ Goto(p, "reassess_assessment", loc[p])

\* await assessment.save()
reassess_patient_assessment(p) ==
    /\ pc[p] = "reassess_assessment"
    /\ assessments' = Append(assessments,
                             TriageAssessment(loc[p].patient_id, loc[p].esi,
                                              "ai_reassessment"))
    /\ UNCHANGED <<now, ops, nextId, patients, queue, alerts>>
    /\ Goto(p, "reassess_find", loc[p])

\* `if old_esi and abs(old_esi - esi_level) >= 1`
condition_changed(old_esi, esi_level) ==
    old_esi # 0 /\ (old_esi - esi_level >= 1 \/ esi_level - old_esi >= 1)

\* queue_entry = await QueueEntry.find_one(...); only a waiting entry gets
\* the new esi_level and priority_score and is saved
reassess_patient_find(p) ==
    /\ pc[p] = "reassess_find"
    /\ UNCHANGED <<now, ops, nextId, store>>
    /\ LET queue_entry == find_one(queue, loc[p].patient_id) IN
       IF queue_entry # NoEntry /\ queue_entry.status = WAITING
       THEN /\ Goto(p, "reassess_entry_save",
                    [loc[p] EXCEPT !.read = queue_entry,
                                   !.entry = [queue_entry EXCEPT
                                                !.esi_level = loc[p].esi,
                                                !.priority_score = loc[p].score]])
       ELSE IF condition_changed(loc[p].old_esi, loc[p].esi)
            THEN /\ Goto(p, "reassess_alert", [loc[p] EXCEPT !.read = queue_entry])
            ELSE Return(p, Response("reassess", loc[p].patient_id, 200,
                                    queue_entry # NoEntry, queue_entry, NoEntry))

\* await queue_entry.save()
reassess_patient_entry_save(p) ==
    /\ pc[p] = "reassess_entry_save"
    /\ queue' = save(queue, loc[p].entry)
    /\ UNCHANGED <<now, ops, nextId, patients, assessments, alerts>>
    /\ IF condition_changed(loc[p].old_esi, loc[p].esi)
       THEN /\ Goto(p, "reassess_alert", loc[p])
       ELSE Return(p, Response("reassess", loc[p].patient_id, 200, TRUE,
                               loc[p].read, loc[p].entry))

\* await alert.save() of the condition_change alert
reassess_patient_alert(p) ==
    /\ pc[p] = "reassess_alert"
    /\ alerts' = Append(alerts,
                        Alert(nextId.alert, loc[p].patient_id, "condition_change",
                              IF loc[p].esi < loc[p].old_esi THEN "high" ELSE "medium"))
    /\ nextId' = [nextId EXCEPT !.alert = @ + 1]
    /\ UNCHANGED <<now, ops, patients, queue, assessments>>
    /\ Return(p, Response("reassess", loc[p].patient_id, 200,
                          loc[p].read # NoEntry, loc[p].read, loc[p].entry))

(* ------------------- patients_mongo.py: delete_patient ---------------- *)
\* patient = await Patient.get(patient_id)
delete_patient(p) ==
    \E patient_id \in PatientIds :
      /\ UNCHANGED <<now, nextId, store>>
      /\ Begin(p, IF Patient_get(patients, patient_id) # NoPatient
                  THEN "delete_patient" ELSE "delete_assessments",
               [LocInit EXCEPT !.patient_id = patient_id])

\* await patient.delete()
delete_patient_delete(p) ==
    /\ pc[p] = "delete_patient"
    /\ patients' = Patient_delete(patients, loc[p].patient_id)
    /\ UNCHANGED <<now, ops, nextId, queue, assessments, alerts>>
    /\ Goto(p, "delete_assessments", loc[p])

\* await TriageAssessment.find(patient_id == patient_id).delete()
delete_patient_assessments(p) ==
    /\ pc[p] = "delete_assessments"
    /\ assessments' = delete_by_patient(assessments, loc[p].patient_id)
    /\ UNCHANGED <<now, ops, nextId, patients, queue, alerts>>
    /\ Goto(p, "delete_queue", loc[p])

\* await QueueEntry.find(patient_id == patient_id).delete()
delete_patient_queue(p) ==
    /\ pc[p] = "delete_queue"
    /\ queue' = delete_by_patient(queue, loc[p].patient_id)
    /\ UNCHANGED <<now, ops, nextId, patients, assessments, alerts>>
    /\ Goto(p, "delete_alerts", loc[p])

\* await Alert.find(patient_id == patient_id).delete(); return
delete_patient_alerts(p) ==
    /\ pc[p] = "delete_alerts"
    /\ alerts' = delete_by_patient(alerts, loc[p].patient_id)
    /\ UNCHANGED <<now, ops, nextId, patients, queue, assessments>>
    /\ Return(p, Response("delete_patient", loc[p].patient_id, 200, TRUE,
                          NoEntry, NoEntry))

(* ---------------------- triage_mongo.py: get_queue -------------------- *)
\* one row of the response; entry_id and entered_queue are carried along
\* to relate the row to the stored document
QueueItemResponse(entry, idx, t) ==
    [entry_id |-> entry.id, patient_id |-> entry.patient_id,
     esi_level |-> entry.esi_level, queue_position |-> idx,
     wait_time_minutes |-> Minutes(t - entry.entered_queue),
     priority_score |-> entry.priority_score, status |-> entry.status,
     estimated_treatment_time |-> entry.estimated_treatment_time,
     entered_queue |-> entry.entered_queue]

ListResponse(items, listed, waited) ==
    [NoResponse EXCEPT !.op = "get_queue", !.code = 200, !.items = items,
                       !.listed = listed, !.waited = waited]

\* queue_entries = await QueueEntry.find(query, limit, sort).to_list()
get_queue(p) ==
    \E esi_level \in EsiFilterInputs :
    \E queue_entries \in find_queue(queue, esi_level, QueueLimit) :
      /\ UNCHANGED <<now, nextId, store>>
      /\ IF queue_entries = <<>>
         THEN BeginReturn(p, ListResponse(<<>>, {}, {}))
         ELSE /\ Begin(p, "queue_get",
                       [LocInit EXCEPT !.esi_filter = esi_level,
                                       !.list = queue_entries,
                                       !.idx = 1])

\* one turn of the loop: patient = await Patient.get(entry.patient_id); the
\* row is appended `if patient`, with queue_position = idx + 1 (idx from 0)
get_queue_patient(p) ==
    /\ pc[p] = "queue_get"
    /\ UNCHANGED <<now, ops, nextId, store>>
    /\ LET entry == loc[p].list[loc[p].idx]
           out == IF Patient_get(patients, entry.patient_id) # NoPatient
                  THEN Append(loc[p].out, QueueItemResponse(entry, loc[p].idx, now))
                  ELSE loc[p].out
       IN IF loc[p].idx = Len(loc[p].list)
          THEN Return(p, ListResponse(out,
                                      {loc[p].list[i].id : i \in 1..Len(loc[p].list)},
                                      watch[p]))
          ELSE /\ Goto(p, "queue_get", [loc[p] EXCEPT !.idx = @ + 1, !.out = out])

(* -------------------- patients_mongo.py: get_patient ------------------ *)
\* QueueEntry.find(status == WAITING, priority_score > score).count()
count_ahead(q, score) ==
    Cardinality({i \in 1..Len(q) : q[i].status = WAITING /\ q[i].priority_score > score})

\* patient = await Patient.get(patient_id); the 404 of a missing patient is
\* re-raised as 500 by the handler's `except Exception`
get_patient(p) ==
    \E patient_id \in PatientIds :
      /\ UNCHANGED <<now, nextId, store>>
      /\ IF Patient_get(patients, patient_id) = NoPatient
         THEN BeginReturn(p, Response("get_patient", patient_id, 500, FALSE,
                                      NoEntry, NoEntry))
         ELSE Begin(p, "patient_find", [LocInit EXCEPT !.patient_id = patient_id])

\* queue_entry = await QueueEntry.find_one(...); queue_position stays None
\* unless the entry is waiting
get_patient_find(p) ==
    /\ pc[p] = "patient_find"
    /\ UNCHANGED <<now, ops, nextId, store>>
    /\ LET queue_entry == find_one(queue, loc[p].patient_id) IN
       IF queue_entry # NoEntry /\ queue_entry.status = WAITING
       THEN Goto(p, "patient_count", [loc[p] EXCEPT !.read = queue_entry])
       ELSE Return(p, [Response("get_patient", loc[p].patient_id, 200,
                                queue_entry # NoEntry, queue_entry, NoEntry)
                       EXCEPT !.queue_position = None])

\* ahead_count = await QueueEntry.find(...).count(); queue_position =
\* ahead_count + 1
get_patient_count(p) ==
    /\ pc[p] = "patient_count"
    /\ UNCHANGED <<now, ops, nextId, store>>
    /\ Return(p, [Response("get_patient", loc[p].patient_id, 200, TRUE,
                           loc[p].read, NoEntry)
                  EXCEPT !.queue_position =
                            count_ahead(queue, loc[p].read.priority_score) + 1])

(* ===================== the SQL application (main.py) ================== *)
\* models/patient.py and models/triage.py rows
SqlPatient(id, age, pain_scale, t) ==
    [id |-> id, age |-> age, pain_scale |-> pain_scale, arrival_time |-> t]

SqlQueueEntry(id, patient_id, esi_level, priority_score, est) ==
    [id |-> id, patient_id |-> patient_id, esi_level |-> esi_level,
     priority_score |-> priority_score, status |-> WAITING,
     wait_time_minutes |-> 0, estimated_treatment_time |-> est,
     queue_position |-> None]

\* ESITriageEngine.assess_patient on a snapshot whose chief complaint matches
\* no keyword list, whose vital signs are inside the critical and abnormal
\* limits and that is conscious: _is_high_risk decides on pain and age,
\* _predict_resources counts the one resource pain_scale >= 4 asks for
assess_patient(patient) ==
    IF patient.pain_scale >= 8 THEN 2
    ELSE IF (patient.age < 3 \/ patient.age > 80) /\ patient.pain_scale >= 6 THEN 2
    ELSE IF patient.pain_scale >= 4 THEN 4
    ELSE 5

esi_weights(esi_level) ==
    CASE esi_level = 1 -> 1000
      [] esi_level = 2 -> 500
      [] esi_level = 3 -> 200
      [] esi_level = 4 -> 50
      [] esi_level = 5 -> 10
      [] OTHER -> 10

\* ESITriageEngine.calculate_priority_score, in tenths of a point
sql_calculate_priority_score(esi_level, wait_time) ==
    10 * esi_weights(esi_level) + Min(wait_time * 5, 1000)

base_wait_times(esi_level) ==
    CASE esi_level = 1 -> 0
      [] esi_level = 2 -> 10
      [] esi_level = 3 -> 30
      [] esi_level = 4 -> 60
      [] esi_level = 5 -> 120
      [] OTHER -> 60

\* estimate_wait_time of triage.py: five minutes for every waiting entry
\* of the same or a more urgent level
estimate_wait_time(esi_level, q) ==
    base_wait_times(esi_level)
    + 5 * Cardinality({i \in 1..Len(q) :
                         q[i].status = WAITING /\ q[i].esi_level <= esi_level})

\* order_by(QueueEntry.priority_score.desc())
SqlSortsBefore(a, b) == a.priority_score > b.priority_score

\* the table without its unique constraint: every INSERT is accepted
insert_unchecked(q, patient_id) == TRUE

\* patient_id = Column(Integer, ForeignKey("patients.id"), unique=True):
\* the INSERT of a second row for the same patient is refused
unique_patient_id(q, patient_id) ==
    \A i \in 1..Len(q) : q[i].patient_id # patient_id

\* UPDATE queue_entries SET esi_level, priority_score WHERE id = id
sql_update(q, id, esi_level, priority_score) ==
    [i \in 1..Len(q) |->
        IF q[i].id = id
        THEN [q[i] EXCEPT !.esi_level = esi_level, !.priority_score = priority_score]
        ELSE q[i]]

\* main.py creates the tables empty; `requests` requests are still to arrive
SqlStart(requests) ==
    /\ now = 0
    /\ ops = requests
    /\ nextId = [patient |-> 1, entry |-> 1, alert |-> 1]
    /\ patients = <<>>
    /\ queue = <<>>
    /\ assessments = <<>>
    /\ alerts = <<>>
    /\ pc = [p \in Procs |-> "idle"]
    /\ loc = [p \in Procs |-> LocInit]
    /\ watch = [p \in Procs |-> {}]
    /\ last = NoResponse
    /\ snapshot = NoSnapshot
    /\ result = NoResult

InitSql == SqlStart(MaxSqlOps)

InitSqlQueue == SqlStart(MaxQueueOps)

(* ---------------------- patients.py: create_patient ------------------- *)
\* db.add(db_patient); db.commit(); db.refresh(db_patient); the triage
\* engine then assesses the request data
sql_create_patient(p) ==
    \E age \in AgeInputs, pain_scale \in SqlPainInputs :
      LET db_patient == SqlPatient(nextId.patient, age, pain_scale, now)
          esi_level == assess_patient(db_patient)
      IN
      /\ nextId.patient <= MaxSqlPatients
      /\ nextId' = [nextId EXCEPT !.patient = @ + 1]
      /\ patients' = Patient_save(patients, db_patient)
      /\ UNCHANGED <<now, queue, assessments, alerts>>
      /\ Begin(p, "sql_create_commit",
                  [LocInit EXCEPT !.patient_id = db_patient.id,
                                  !.patient = db_patient,
                                  !.esi = esi_level,
                                  !.score = sql_calculate_priority_score(esi_level, 0)])

\* db.add(queue_entry); db.commit(): the row is built without
\* estimated_treatment_time; a refused INSERT raises IntegrityError, which
\* nothing catches (status 500)
sql_create_patient_commit(p) ==
    /\ pc[p] = "sql_create_commit"
    /\ UNCHANGED <<now, ops, patients, assessments, alerts>>
    /\ IF unique_patient_id(queue, loc[p].patient_id)
       THEN /\ queue' = Append(queue, SqlQueueEntry(nextId.entry, loc[p].patient_id,
                                                    loc[p].esi, loc[p].score, None))
            /\ nextId' = [nextId EXCEPT !.entry = @ + 1]
            /\ Return(p, Response("create_patient", loc[p].patient_id, 200, TRUE,
                                  NoEntry, NoEntry))
       ELSE /\ UNCHANGED <<queue, nextId>>
            /\ Return(p, Response("create_patient", loc[p].patient_id, 500, TRUE,
                                  NoEntry, NoEntry))

(* ----------------------- triage.py: perform_triage -------------------- *)
\* patient = db.query(Patient)...first(); 404 when there is none
sql_perform_triage(p) ==
    \E patient_id \in SqlPatientIds :
      LET patient == Patient_get(patients, patient_id) IN
      /\ UNCHANGED <<now, nextId, store>>
      /\ IF patient = NoPatient
         THEN BeginReturn(p, Response("perform_triage", patient_id, 404, FALSE,
                                         NoEntry, NoEntry))
         ELSE Begin(p, "sql_triage_wait",
                       [LocInit EXCEPT !.patient_id = patient_id,
                                       !.patient = patient,
                                       !.esi = assess_patient(patient),
                                       !.score = sql_calculate_priority_score(
                                                     assess_patient(patient), 0)])

\* wait_time = estimate_wait_time(esi_level, db)
sql_perform_triage_wait(p) ==
    /\ pc[p] = "sql_triage_wait"
    /\ UNCHANGED <<now, ops, nextId, store>>
    /\ Goto(p, "sql_triage_find",
            [loc[p] EXCEPT !.est = estimate_wait_time(loc[p].esi, queue)])

\* queue_entry = db.query(QueueEntry).filter(patient_id == patient.id).first()
sql_perform_triage_find(p) ==
    /\ pc[p] = "sql_triage_find"
    /\ UNCHANGED <<now, ops, nextId, store>>
    /\ Goto(p, "sql_triage_commit",
            [loc[p] EXCEPT !.read = find_one(queue, loc[p].patient_id)])

\* db.commit() writes the assessment, the queue entry (updated `if
\* queue_entry`, whatever its status, else inserted) and, for esi_level <= 2,
\* the alert, in one transaction
sql_perform_triage_commit(p) ==
    /\ pc[p] = "sql_triage_commit"
    /\ UNCHANGED <<now, ops, patients>>
    /\ LET inserted == loc[p].read = NoEntry
           refused == inserted /\ ~unique_patient_id(queue, loc[p].patient_id)
       IN
       IF refused
       THEN /\ UNCHANGED <<queue, assessments, alerts, nextId>>
            /\ Return(p, Response("perform_triage", loc[p].patient_id, 500, FALSE,
                                  NoEntry, NoEntry))
       ELSE /\ queue' = IF inserted
                        THEN Append(queue, SqlQueueEntry(nextId.entry, loc[p].patient_id,
                                                         loc[p].esi, loc[p].score,
                                                         loc[p].est))
                        ELSE sql_update(queue, loc[p].read.id, loc[p].esi, loc[p].score)
            /\ assessments' = Append(assessments,
                                     TriageAssessment(loc[p].patient_id, loc[p].esi,
                                                      "ai_model"))
            /\ alerts' = IF loc[p].esi <= 2
                         THEN Append(alerts,
                                     Alert(nextId.alert, loc[p].patient_id,
                                           "critical_patient",
                                           IF loc[p].esi = 1 THEN "critical" ELSE "high"))
                         ELSE alerts
            /\ nextId' = [nextId EXCEPT
                            !.entry = IF inserted THEN @ + 1 ELSE @,
                            !.alert = IF loc[p].esi <= 2 THEN @ + 1 ELSE @]
            /\ Return(p, Response("perform_triage", loc[p].patient_id, 200,
                                  ~inserted, loc[p].read, NoEntry))

(* -------------------- patients.py: update_patient_vitals -------------- *)
sql_update_patient_vitals(p) ==
    \E patient_id \in SqlPatientIds, pain_scale \in SqlPainInputs :
      LET patient == Patient_get(patients, patient_id) IN
      /\ UNCHANGED <<now, nextId, store>>
      /\ IF patient = NoPatient
         THEN BeginReturn(p, Response("update_vitals", patient_id, 404, FALSE,
                                         NoEntry, NoEntry))
         ELSE Begin(p, "sql_vitals_commit",
                       [LocInit EXCEPT !.patient_id = patient_id,
                                       !.patient = [patient EXCEPT
                                                      !.pain_scale = pain_scale]])

\* db.commit() of the new vital signs; the engine then re-assesses
sql_update_patient_vitals_commit(p) ==
    /\ pc[p] = "sql_vitals_commit"
    /\ patients' = Patient_save(patients, loc[p].patient)
    /\ UNCHANGED <<now, ops, nextId, queue, assessments, alerts>>
    /\ Goto(p, "sql_vitals_find",
            [loc[p] EXCEPT !.esi = assess_patient(loc[p].patient)])

\* queue_entry = db.query(QueueEntry)...first(); it is changed only
\* `if queue_entry and queue_entry.esi_level != new_esi_level`
sql_update_patient_vitals_find(p) ==
    /\ pc[p] = "sql_vitals_find"
    /\ UNCHANGED <<now, ops, nextId, store>>
    /\ LET queue_entry == find_one(queue, loc[p].patient_id) IN
       IF queue_entry # NoEntry /\ queue_entry.esi_level # loc[p].esi
       THEN Goto(p, "sql_vitals_entry_commit",
                 [loc[p] EXCEPT !.read = queue_entry,
                                !.score = sql_calculate_priority_score(
                                              loc[p].esi, queue_entry.wait_time_minutes)])
       ELSE Return(p, Response("update_vitals", loc[p].patient_id, 200,
                               queue_entry # NoEntry, queue_entry, NoEntry))

sql_update_patient_vitals_entry_commit(p) ==
    /\ pc[p] = "sql_vitals_entry_commit"
    /\ queue' = sql_update(queue, loc[p].read.id, loc[p].esi, loc[p].score)
    /\ UNCHANGED <<now, ops, nextId, patients, assessments, alerts>>
    /\ Return(p, Response("update_vitals", loc[p].patient_id, 200, TRUE,
                          loc[p].read, NoEntry))

(* ---------------------- triage.py: get_queue_status ------------------- *)
\* a row of the response; entry_id and arrival_time are carried along to
\* relate the row to the stored rows
SqlQueueItem(entry, patient, idx, t) ==
    [entry_id |-> entry.id, patient_id |-> entry.patient_id,
     esi_level |-> entry.esi_level, queue_position |-> idx,
     wait_time_minutes |-> Minutes(t - patient.arrival_time),
     priority_score |-> entry.priority_score, status |-> entry.status,
     estimated_treatment_time |-> entry.estimated_treatment_time,
     estimated_remaining_wait |->
         Max(0, entry.estimated_treatment_time - Minutes(t - patient.arrival_time)),
     entered_queue |-> patient.arrival_time]

SqlListResponse(op, code, items) ==
    [NoResponse EXCEPT !.op = op, !.code = code, !.items = items]

\* the orders in which ORDER BY priority_score DESC may return the rows of
\* sequence m; rows of equal score come in any order
SqlSorted(m) ==
    LET n == Len(m)
    IN {[i \in 1..n |-> m[f[i]]] : f \in
          {g \in Orderings(n) :
              \A i, j \in 1..n : i < j => ~SqlSortsBefore(m[g[j]], m[g[i]])}}

\* db.query(QueueEntry).filter(status == "waiting").order_by(...)
sql_find_queue(q, limit) ==
    LET Match(e) == e.status = WAITING
    IN {Limit(s, limit) : s \in SqlSorted(SelectSeq(q, Match))}

sql_get_queue_status(p) ==
    \E queue_entries \in sql_find_queue(queue, Len(queue)) :
      /\ UNCHANGED <<now, nextId, store>>
      /\ IF queue_entries = <<>>
         THEN BeginReturn(p, SqlListResponse("get_queue_status", 200, <<>>))
         ELSE Begin(p, "sql_status_get",
                       [LocInit EXCEPT !.list = queue_entries, !.idx = 1])

\* one turn of the loop: the patient row is read and
\* max(0, entry.estimated_treatment_time - wait_time) computed; a NULL
\* estimated_treatment_time makes the subtraction raise TypeError (500)
sql_get_queue_status_patient(p) ==
    /\ pc[p] = "sql_status_get"
    /\ UNCHANGED <<now, ops, nextId, store>>
    /\ LET entry == loc[p].list[loc[p].idx]
           patient == Patient_get(patients, entry.patient_id)
           out == Append(loc[p].out, SqlQueueItem(entry, patient, loc[p].idx, now))
       IN IF patient = NoPatient \/ entry.estimated_treatment_time = None
          THEN Return(p, SqlListResponse("get_queue_status", 500, <<>>))
          ELSE IF loc[p].idx = Len(loc[p].list)
               THEN Return(p, SqlListResponse("get_queue_status", 200, out))
               ELSE Goto(p, "sql_status_get",
                         [loc[p] EXCEPT !.idx = @ + 1, !.out = out])

(* ------------------- triage_mongo.py: acknowledge_alert --------------- *)
\* ids a request may name: those of the alerts the requests can create
AlertIds == 1..MaxOps

\* Alert.get(alert_id)
Alert_get(as, alert_id) ==
    LET Match(a) == a.id = alert_id
        m == SelectSeq(as, Match)
    IN IF m = <<>> THEN NoAlert ELSE m[1]

\* alert = await Alert.get(alert_id); a missing alert raises 404, which the
\* handler's `except Exception` turns into 500
acknowledge_alert(p) ==
    \E alert_id \in AlertIds :
      LET alert == Alert_get(alerts, alert_id) IN
      /\ UNCHANGED <<now, nextId, store>>
      /\ IF alert = NoAlert
         THEN BeginReturn(p, Response("acknowledge_alert", 0, 500, FALSE,
                                      NoEntry, NoEntry))
         ELSE Begin(p, "acknowledge_save",
                    [LocInit EXCEPT !.patient_id = alert.patient_id,
                                    !.alert = [alert EXCEPT
                                                 !.acknowledged = TRUE,
                                                 !.acknowledged_at = now]])

\* await alert.save()
acknowledge_alert_save(p) ==
    /\ pc[p] = "acknowledge_save"
    /\ alerts' = save(alerts, loc[p].alert)
    /\ UNCHANGED <<now, ops, nextId, patients, queue, assessments>>
    /\ Return(p, Response("acknowledge_alert", loc[p].patient_id, 200, TRUE,
                          NoEntry, NoEntry))

(* -------- realtime_service_mongo.py: ConnectionManager._periodic_updates *)
\* get_queue_data: the waiting entries in ranking order, a row for every
\* entry whose patient exists, with the stored priority_score
queue_data(q, ps, t) ==
    LET rows(s) == [i \in 1..Len(s) |-> QueueItemResponse(s[i], i, t)]
        HasPatient(row) == Patient_get(ps, row.patient_id) # NoPatient
    IN {SelectSeq(rows(s), HasPatient) : s \in find_queue(q, 0, QueueLimit)}

\* one turn of the background loop, run every update_interval seconds while
\* a client is connected: it reads the statistics, the queue and the alerts
\* and broadcasts them; it writes nothing to the store
periodic_updates ==
    /\ \E data \in queue_data(queue, patients, now) :
          last' = [NoResponse EXCEPT !.op = "periodic_updates", !.code = 200,
                                     !.items = data]
    /\ UNCHANGED <<now, ops, nextId, store, pc, loc, watch, snapshot, result>>

(* ============== services/ai_triage_simple.py: the classifier ========== *)
\* a vital sign that the vitals dictionary has no key for
Absent == -2

\* str.lower() on the consciousness levels and complaints used as inputs
lower(text) ==
    CASE text = "Alert" -> "alert"
      [] text = "Unresponsive" -> "unresponsive"
      [] text = "Chest Pain" -> "chest pain"
      [] text = "Cough" -> "cough"
      [] text = "Fall with fever" -> "fall with fever"
      [] OTHER -> text

\* `word in chief_complaint` on the lower-cased complaints used as inputs
mentions(complaint, word) ==
    \/ complaint = word
    \/ complaint = "fall with fever" /\ word \in {"fall", "fever"}

\* dict.get(key, default): the default only when the key is absent; a
\* stored None is returned as None
vitals_get(value, default) == IF value = Absent THEN default ELSE value

\* `patient_data.<vital> or <default>` of create_patient: a field the
\* request leaves out is None in PatientCreate
request_or(value, default) ==
    IF value = Absent THEN default ELSE or_default(value, default)

\* ai_input_data of create_patient
create_ai_input_data(s) ==
    [s EXCEPT !.bp_systolic = request_or(@, 120),
              !.heart_rate = request_or(@, 80),
              !.o2_saturation = request_or(@, 98),
              !.respiratory_rate = request_or(@, 16),
              !.pain_scale = request_or(@, 0)]

\* ai_input_data of reassess_patient, built from the stored document
reassess_ai_input_data(s) ==
    [s EXCEPT !.bp_systolic = vitals_get(@, 120),
              !.heart_rate = vitals_get(@, 80),
              !.o2_saturation = vitals_get(@, 98),
              !.respiratory_rate = vitals_get(@, 16),
              !.pain_scale = vitals_get(@, 0)]

\* what a classifier run returns: raised tells that an exception left it;
\* confidence is in hundredths; fallback tells that _ai_prediction handed
\* over to the rules
Prediction(esi_level, confidence, reasons) ==
    [kind |-> "prediction", raised |-> FALSE, esi_level |-> esi_level,
     confidence |-> confidence, reasons |-> reasons, fallback |-> FALSE,
     statistical |-> FALSE, caller |-> "none"]

Raised ==
    [kind |-> "prediction", raised |-> TRUE, esi_level |-> 0, confidence |-> 0,
     reasons |-> {}, fallback |-> FALSE, statistical |-> FALSE,
     caller |-> "none"]

\* the ESI level 1 test of _rule_based_prediction; Python evaluates the
\* `or` chain from the left and stops at the first true operand
level_1(d) ==
    \/ lower(d.consciousness_level) \in {"unconscious", "unresponsive"}
    \/ d.bp_systolic < 80 \/ d.bp_systolic > 200
    \/ d.heart_rate > 150 \/ d.heart_rate < 40
    \/ d.o2_saturation < 85

\* the comparison of a None operand with a number raises TypeError: the
\* operands the level 1 test reaches
level_1_raises(d) ==
    /\ lower(d.consciousness_level) \notin {"unconscious", "unresponsive"}
    /\ \/ d.bp_systolic = None
       \/ /\ d.bp_systolic >= 80 /\ d.bp_systolic <= 200
          /\ \/ d.heart_rate = None
             \/ /\ d.heart_rate <= 150 /\ d.heart_rate >= 40
                /\ d.o2_saturation = None

level_2(d) ==
    \/ d.bleeding
    \/ mentions(lower(d.chief_complaint), "chest pain")
    \/ mentions(lower(d.chief_complaint), "heart attack")
    \/ mentions(lower(d.chief_complaint), "stroke")
    \/ d.breathing_difficulty
    \/ d.bp_systolic < 90
    \/ d.o2_saturation < 92
    \/ d.pain_scale >= 8

level_3(d) ==
    \/ d.trauma_indicator
    \/ d.pain_scale >= 6
    \/ /\ d.age > 65
       /\ \/ mentions(lower(d.chief_complaint), "fall")
          \/ mentions(lower(d.chief_complaint), "injury")
    \/ d.bp_systolic > 160
    \/ d.heart_rate > 100

level_4(d) ==
    \/ d.pain_scale >= 3
    \/ mentions(lower(d.chief_complaint), "fever")
    \/ mentions(lower(d.chief_complaint), "infection")

\* SimpleAITriageEngine._rule_based_prediction; `if pain_scale >= 7` after
\* the decision list compares pain_scale in every run
rule_based_prediction(d) ==
    IF level_1_raises(d) \/ d.pain_scale = None
    THEN Raised
    ELSE LET esi_level == IF level_1(d) THEN 1
                          ELSE IF level_2(d) THEN 2
                          ELSE IF level_3(d) THEN 3
                          ELSE IF level_4(d) THEN 4
                          ELSE 5
             reasoning ==
                 {CASE esi_level = 1 -> "Critical vital signs indicating immediate life threat"
                    [] esi_level = 2 -> "High-risk condition requiring urgent care"
                    [] esi_level = 3 -> "Urgent condition but patient is stable"
                    [] esi_level = 4 -> "Less urgent condition, can wait"
                    [] OTHER -> "Non-urgent condition, routine care"}
                 \cup (IF d.bleeding THEN {"Active bleeding detected"} ELSE {})
                 \cup (IF d.breathing_difficulty
                       THEN {"Respiratory distress present"} ELSE {})
                 \cup (IF d.pain_scale >= 7 THEN {"Severe pain reported"} ELSE {})
         IN Prediction(esi_level, 85, reasoning)

\* _extract_ml_features applies float() to the vitals: float(None) raises
extract_raises(d) ==
    \/ d.bp_systolic = None
    \/ d.heart_rate = None
    \/ d.o2_saturation = None
    \/ d.respiratory_rate = None
    \/ d.pain_scale = None

\* the reason AITriageEngine._fallback_rule_based starts its reasons with
FallbackTag == "rule_based_fallback"

\* the results predict_esi_level may give for input d: without a loaded
\* model the rules; with one, what the model predicts (any class, with the
\* highest class probability as confidence), or the rules when feature
\* extraction or the model raises
predict_esi_level(d) ==
    IF d.model = "none"
    THEN {rule_based_prediction(d)}
    ELSE IF d.model = "failing" \/ extract_raises(d)
         THEN {[rule_based_prediction(d) EXCEPT !.fallback = TRUE]}
         ELSE {[Prediction(esi_level, confidence,
                           {"AI ensemble model prediction", "Based on medical features",
                            "Prediction: ESI Level"})
                EXCEPT !.statistical = TRUE] :
                  esi_level \in 1..5, confidence \in ModelConfidences}

\* the patient data a classifier run starts from: the request fields of
\* PatientCreate, which are also the fields create_patient stores
ConsciousnessInputs == {"Alert", "Unresponsive"}
BpInputs == {Absent, None, 120, 170}
HeartRateInputs == {None, 80}
O2Inputs == {None, 98}
RespiratoryInputs == {None, 6, 16}
ClassifierPainInputs == {None, 0, 1, 9}
ComplaintInputs == {"Cough", "Chest Pain"}
ModelStates == {"none", "loaded", "failing"}

PatientData ==
    {[kind |-> "patient_data", model |-> model, age |-> 40,
      consciousness_level |-> consciousness_level, bp_systolic |-> bp_systolic,
      heart_rate |-> heart_rate, o2_saturation |-> o2_saturation,
      respiratory_rate |-> respiratory_rate, pain_scale |-> pain_scale,
      chief_complaint |-> chief_complaint, bleeding |-> bleeding,
      breathing_difficulty |-> FALSE, trauma_indicator |-> FALSE] :
        model \in ModelStates, consciousness_level \in ConsciousnessInputs,
        bp_systolic \in BpInputs, heart_rate \in HeartRateInputs,
        o2_saturation \in O2Inputs, respiratory_rate \in RespiratoryInputs,
        pain_scale \in ClassifierPainInputs, chief_complaint \in ComplaintInputs,
        bleeding \in BOOLEAN}

Idle ==
    /\ now = 0
    /\ ops = 0
    /\ nextId = [patient |-> 1, entry |-> 1, alert |-> 1]
    /\ patients = <<>>
    /\ queue = <<>>
    /\ assessments = <<>>
    /\ alerts = <<>>
    /\ pc = [p \in Procs |-> "idle"]
    /\ loc = [p \in Procs |-> LocInit]
    /\ watch = [p \in Procs |-> {}]
    /\ last = NoResponse

InitClassifier ==
    /\ Idle
    /\ snapshot \in PatientData
    /\ result = NoResult

\* the classification create_patient runs on the request
classify_create_patient ==
    /\ snapshot.kind = "patient_data"
    /\ result = NoResult
    /\ \E r \in predict_esi_level(create_ai_input_data(snapshot)) :
          result' = [r EXCEPT !.caller = "create_patient"]
    /\ UNCHANGED <<now, ops, nextId, patients, queue, assessments, alerts, pc,
                   loc, watch, last, snapshot>>

\* the classification reassess_patient runs on the stored document
classify_reassess_patient ==
    /\ snapshot.kind = "patient_data"
    /\ result = NoResult
    /\ \E r \in predict_esi_level(reassess_ai_input_data(snapshot)) :
          result' = [r EXCEPT !.caller = "reassess_patient"]
    /\ UNCHANGED <<now, ops, nextId, patients, queue, assessments, alerts, pc,
                   loc, watch, last, snapshot>>

NextClassifier ==
    \/ classify_create_patient
    \/ classify_reassess_patient

SpecClassifier == InitClassifier /\ [][NextClassifier]_vars

(* ============ the three priority score functions, side by side ======= *)
\* AITriageEngine.calculate_priority_score, in tenths of a point
ai_calculate_priority_score(esi_level, wait_time, age, comorbidities) ==
    10 * esi_weights(esi_level)
    + Min(wait_time * 5, 1000)
    + (IF age < 5 \/ age > 75 THEN 200
       ELSE IF age < 12 \/ age > 65 THEN 100 ELSE 0)
    + 10 * Min(comorbidities * 5, 25)

EsiLevels == 1..5
WaitInputs == {0, 30, 40, 300}
ScoreAgeInputs == {1, 40, 70}
ScorePainInputs == {0, 10}
ComorbidityInputs == {0, 6}

\* the arguments of one call
ScoreArguments ==
    [esi_level : EsiLevels, wait_time : WaitInputs, age : ScoreAgeInputs,
     pain_level : ScorePainInputs, comorbidities : ComorbidityInputs]

\* two calls whose results are compared
InitScore ==
    /\ Idle
    /\ snapshot \in [kind : {"score_arguments"}, x : ScoreArguments, y : ScoreArguments]
    /\ result = NoResult

Scores(engine, x, y) == [kind |-> "scores", engine |-> engine, x |-> x, y |-> y]

\* SimpleAITriageEngine.calculate_priority_score on both argument lists
score_simple ==
    /\ snapshot.kind = "score_arguments"
    /\ result = NoResult
    /\ result' = Scores("SimpleAITriageEngine",
                        calculate_priority_score(snapshot.x.esi_level, snapshot.x.wait_time,
                                                 snapshot.x.age, snapshot.x.pain_level),
                        calculate_priority_score(snapshot.y.esi_level, snapshot.y.wait_time,
                                                 snapshot.y.age, snapshot.y.pain_level))
    /\ UNCHANGED <<now, ops, nextId, patients, queue, assessments, alerts, pc,
                   loc, watch, last, snapshot>>

\* ESITriageEngine.calculate_priority_score on both argument lists
score_esi ==
    /\ snapshot.kind = "score_arguments"
    /\ result = NoResult
    /\ result' = Scores("ESITriageEngine",
                        sql_calculate_priority_score(snapshot.x.esi_level, snapshot.x.wait_time),
                        sql_calculate_priority_score(snapshot.y.esi_level, snapshot.y.wait_time))
    /\ UNCHANGED <<now, ops, nextId, patients, queue, assessments, alerts, pc,
                   loc, watch, last, snapshot>>

\* AITriageEngine.calculate_priority_score on both argument lists
score_ai ==
    /\ snapshot.kind = "score_arguments"
    /\ result = NoResult
    /\ result' = Scores("AITriageEngine",
                        ai_calculate_priority_score(snapshot.x.esi_level, snapshot.x.wait_time,
                                                    snapshot.x.age, snapshot.x.comorbidities),
                        ai_calculate_priority_score(snapshot.y.esi_level, snapshot.y.wait_time,
                                                    snapshot.y.age, snapshot.y.comorbidities))
    /\ UNCHANGED <<now, ops, nextId, patients, queue, assessments, alerts, pc,
                   loc, watch, last, snapshot>>

NextScore ==
    \/ score_simple
    \/ score_esi
    \/ score_ai

SpecScore == InitScore /\ [][NextScore]_vars

(* ===================== voice.py: check_queue_alerts =================== *)
\* what the two count queries of check_queue_alerts may find
WaitingCounts == {2, 29, 30}
CriticalCounts == {0, 2, 3}

QueueCounts ==
    {c \in [kind : {"queue_counts"}, waiting_count : WaitingCounts,
            critical_count : CriticalCounts] :
        c.critical_count <= c.waiting_count}

\* voice_service.announcement_history with the evaluations made so far;
\* unchanged tells that the counts are those of the latest evaluation and
\* steady that they were at the time of the latest evaluation
InitQueueAlerts ==
    /\ Idle
    /\ snapshot \in QueueCounts
    /\ result = [kind |-> "announcements", evaluations |-> 0, history |-> <<>>,
                 unchanged |-> FALSE, steady |-> FALSE]

\* the entry _log_announcement appends for a staff alert
StaffAlert(evaluation, urgency, count) ==
    [evaluation |-> evaluation, type |-> "staff_alert", urgency |-> urgency,
     count |-> count]

\* registrations and transitions change the counts between evaluations
queue_counts_change ==
    /\ snapshot.kind = "queue_counts"
    /\ result.evaluations < MaxEvaluations
    /\ snapshot' \in QueueCounts \ {snapshot}
    /\ result' = [result EXCEPT !.unchanged = FALSE]
    /\ UNCHANGED <<now, ops, nextId, patients, queue, assessments, alerts, pc,
                   loc, watch, last>>

\* one evaluation: announce_staff_alert(..., "high") if critical_count >= 3,
\* then announce_staff_alert(..., "critical") if waiting_count >= 30; an
\* announcement is logged when its speech was generated
check_queue_alerts ==
    /\ snapshot.kind = "queue_counts"
    /\ result.evaluations < MaxEvaluations
    /\ \E spoken_high, spoken_critical \in BOOLEAN :
         LET n == result.evaluations + 1
             high == IF snapshot.critical_count >= 3 /\ spoken_high
                     THEN <<StaffAlert(n, "high", snapshot.critical_count)>>
                     ELSE <<>>
             critical == IF snapshot.waiting_count >= 30 /\ spoken_critical
                         THEN <<StaffAlert(n, "critical", snapshot.waiting_count)>>
                         ELSE <<>>
         IN result' = [result EXCEPT !.evaluations = n,
                                     !.history = @ \o high \o critical,
                                     !.steady = result.unchanged,
                                     !.unchanged = TRUE]
    /\ UNCHANGED <<now, ops, nextId, patients, queue, assessments, alerts, pc,
                   loc, watch, last, snapshot>>

NextQueueAlerts ==
    \/ queue_counts_change
    \/ check_queue_alerts

SpecQueueAlerts == InitQueueAlerts /\ [][NextQueueAlerts]_vars

(* ========= realtime_service_mongo.py: ConnectionManager, websocket.py == *)
Clients == 1..NumClients
ClientTypes == {"dashboard", "queue", "alerts", "all"}
MessageTypes == <<"dashboard_stats", "queue_update", "alerts_update">>

\* the client type _periodic_updates broadcasts a message type to
broadcast_type(message_type) ==
    CASE message_type = "dashboard_stats" -> "dashboard"
      [] message_type = "queue_update" -> "queue"
      [] message_type = "alerts_update" -> "alerts"

\* a loop that an exception in a turn ends
after_error_stop(task) == "stopped"

\* the loop after `except Exception`: the error is logged and the loop
\* sleeps update_interval seconds before its next turn
after_error(task) == task

\* ConnectionManager.__init__: no connection, no background task; turn
\* tells an even turn of the loop from an odd one
NoConnections ==
    [kind |-> "connections",
     active_connections |-> [t \in ClientTypes |-> {}],
     task |-> "none", turn |-> 0]

NoDeliveries ==
    [kind |-> "deliveries", outcome |-> "none",
     received |-> [c \in Clients |-> {}]]

InitRealtime ==
    /\ Idle
    /\ snapshot = NoConnections
    /\ result = NoDeliveries

\* ConnectionManager.disconnect(websocket)
disconnect(active_connections, gone) ==
    [t \in ClientTypes |-> active_connections[t] \ gone]

Connected(active_connections) == UNION {active_connections[t] : t \in ClientTypes}

\* a websocket endpoint: connect() adds the socket to the set of its type
\* and to "all" and sends the initial data (a failed send disconnects the
\* socket again); start_background_updates() creates the task if
\* running_tasks is empty
websocket_connect ==
    /\ snapshot.kind = "connections"
    /\ \E c \in Clients \ Connected(snapshot.active_connections),
          client_type \in ClientTypes, sent \in BOOLEAN :
         LET added == [snapshot.active_connections EXCEPT
                         ![client_type] = @ \cup {c}, !["all"] = @ \cup {c}]
         IN snapshot' = [snapshot EXCEPT
                           !.active_connections =
                               IF sent THEN added ELSE disconnect(added, {c}),
                           !.task = IF @ = "none" THEN "sleeping" ELSE @]
    /\ result' = [result EXCEPT !.outcome = "connected"]
    /\ UNCHANGED <<now, ops, nextId, patients, queue, assessments, alerts, pc,
                   loc, watch, last>>

\* WebSocketDisconnect in an endpoint: connection_manager.disconnect
websocket_disconnect ==
    /\ snapshot.kind = "connections"
    /\ \E c \in Connected(snapshot.active_connections) :
         snapshot' = [snapshot EXCEPT
                        !.active_connections = disconnect(@, {c})]
    /\ result' = [result EXCEPT !.outcome = "disconnected"]
    /\ UNCHANGED <<now, ops, nextId, patients, queue, assessments, alerts, pc,
                   loc, watch, last>>

\* the messages a turn delivers to client c: message k is broadcast to the
\* sockets of its client type unless the turn raised before it
Delivered(active_connections, c, raised_at) ==
    {MessageTypes[k] : k \in {j \in 1..Len(MessageTypes) :
        j < raised_at /\ c \in active_connections[broadcast_type(MessageTypes[j])]}}

\* one turn of _periodic_updates after its sleep: with a connection in
\* "all" it broadcasts dashboard_stats, queue_update and alerts_update, each
\* to the sockets of its own type; a socket whose send fails is
\* disconnected; an exception in the turn is caught and the loop goes on
periodic_updates_turn ==
    /\ snapshot.kind = "connections"
    /\ snapshot.task = "sleeping"
    /\ \E raised_at \in 1..(Len(MessageTypes) + 1),
          failing \in SUBSET Connected(snapshot.active_connections) :
         LET connections == snapshot.active_connections
             runs == connections["all"] # {}
             raised == runs /\ raised_at <= Len(MessageTypes)
             got == [c \in Clients |->
                       IF runs /\ c \notin failing
                       THEN Delivered(connections, c, raised_at) ELSE {}]
             gone == IF runs
                     THEN {c \in failing :
                             Delivered(connections, c, raised_at) # {}}
                     ELSE {}
         IN /\ snapshot' = [snapshot EXCEPT
                              !.active_connections = disconnect(@, gone),
                              !.task = IF raised THEN after_error(@) ELSE @,
                              !.turn = 1 - @]
            /\ result' = [result EXCEPT
                            !.outcome = IF raised THEN "failed"
                                        ELSE IF runs THEN "sent" ELSE "skipped",
                            !.received = got]
    /\ UNCHANGED <<now, ops, nextId, patients, queue, assessments, alerts, pc,
                   loc, watch, last>>

\* stop_background_updates: the task is cancelled (CancelledError breaks
\* the loop) and running_tasks is cleared
stop_background_updates ==
    /\ snapshot.kind = "connections"
    /\ snapshot.task # "none"
    /\ snapshot' = [snapshot EXCEPT !.task = "none"]
    /\ result' = [result EXCEPT !.outcome = "cancelled"]
    /\ UNCHANGED <<now, ops, nextId, patients, queue, assessments, alerts, pc,
                   loc, watch, last>>

NextRealtime ==
    \/ websocket_connect
    \/ websocket_disconnect
    \/ periodic_updates_turn
    \/ stop_background_updates

SpecRealtime == InitRealtime /\ [][NextRealtime]_vars

\* asyncio wakes the task when its sleep is over
SpecRealtimeFair == SpecRealtime /\ WF_vars(periodic_updates_turn)

(* ------------------ main_mongo.py: get_dashboard_stats ---------------- *)
\* QueueEntry.find(status == "waiting").count()
count_waiting(q) ==
    Cardinality({i \in 1..Len(q) : q[i].status = WAITING})

\* QueueEntry.find(esi_level <= 2, status == "waiting").count()
count_critical(q) ==
    Cardinality({i \in 1..Len(q) : q[i].esi_level <= 2 /\ q[i].status = WAITING})

\* QueueEntry.find(esi_level == level, status == "waiting").count()
count_level(q, level) ==
    Cardinality({i \in 1..Len(q) : q[i].esi_level = level /\ q[i].status = WAITING})

\* round(total_wait / len(waiting_entries), 1) with the waits in minutes:
\* the mean in tenths of a minute, a half rounded to the even tenth
average_wait(q, t) ==
    LET seconds[i \in 0..Len(q)] ==
            IF i = 0 THEN 0
            ELSE seconds[i - 1]
                 + (IF q[i].status = WAITING
                    THEN (t - q[i].entered_queue) * TickSeconds ELSE 0)
        n == count_waiting(q)
        whole == seconds[Len(q)] \div (6 * n)
        rest == seconds[Len(q)] % (6 * n)
    IN IF n = 0 THEN 0
       ELSE IF 2 * rest > 6 * n THEN whole + 1
       ELSE IF 2 * rest = 6 * n THEN whole + (whole % 2)
       ELSE whole

\* total_patients = await Patient.count()
get_dashboard_stats(p) ==
    /\ UNCHANGED <<now, nextId, store>>
    /\ Begin(p, "stats_waiting",
             [LocInit EXCEPT !.stats.total_patients = Cardinality(DOMAIN patients)])

\* waiting_patients = await QueueEntry.find(...).count()
get_dashboard_stats_waiting(p) ==
    /\ pc[p] = "stats_waiting"
    /\ UNCHANGED <<now, ops, nextId, store>>
    /\ Goto(p, "stats_critical",
            [loc[p] EXCEPT !.stats.waiting_patients = count_waiting(queue)])

\* critical_patients = await QueueEntry.find(...).count()
get_dashboard_stats_critical(p) ==
    /\ pc[p] = "stats_critical"
    /\ UNCHANGED <<now, ops, nextId, store>>
    /\ Goto(p, "stats_level",
            [loc[p] EXCEPT !.stats.critical_patients = count_critical(queue),
                           !.idx = 1])

\* for level in range(1, 6): count = await QueueEntry.find(...).count()
get_dashboard_stats_level(p) ==
    /\ pc[p] = "stats_level"
    /\ UNCHANGED <<now, ops, nextId, store>>
    /\ LET level == loc[p].idx IN
       Goto(p, IF level < 5 THEN "stats_level" ELSE "stats_entries",
            [loc[p] EXCEPT !.stats.esi_distribution[level] =
                               count_level(queue, level),
                           !.idx = level + 1])

\* waiting_entries = await QueueEntry.find(...).to_list(); the response
get_dashboard_stats_entries(p) ==
    /\ pc[p] = "stats_entries"
    /\ UNCHANGED <<now, ops, nextId, store>>
    /\ Return(p, [NoResponse EXCEPT
                    !.op = "dashboard_stats", !.code = 200,
                    !.stats = [loc[p].stats EXCEPT
                                 !.average_wait_time = average_wait(queue, now)]])

Next ==
    \/ Tick
    \/ periodic_updates
    \/ \E p \in Procs : start_patient_treatment(p)
    \/ \E p \in Procs : start_patient_treatment_save(p)
    \/ \E p \in Procs : start_patient_treatment_get(p)
    \/ \E p \in Procs : complete_patient_treatment(p)
    \/ \E p \in Procs : complete_patient_treatment_save(p)
    \/ \E p \in Procs : complete_patient_treatment_get(p)
    \/ \E p \in Procs : discharge_patient(p)
    \/ \E p \in Procs : discharge_patient_save(p)
    \/ \E p \in Procs : discharge_patient_get(p)
    \/ \E p \in Procs : update_patient_status(p)
    \/ \E p \in Procs : update_patient_status_save(p)
    \/ \E p \in Procs : update_patient_status_notify(p)
    \/ \E p \in Procs : create_patient(p)
    \/ \E p \in Procs : create_patient_update(p)
    \/ \E p \in Procs : create_patient_assessment(p)
    \/ \E p \in Procs : create_patient_enqueue(p)
    \/ \E p \in Procs : create_patient_alert(p)
    \/ \E p \in Procs : create_patient_count(p)
    \/ \E p \in Procs : reassess_patient(p)
    \/ \E p \in Procs : reassess_patient_save(p)
    \/ \E p \in Procs : reassess_patient_assessment(p)
    \/ \E p \in Procs : reassess_patient_find(p)
    \/ \E p \in Procs : reassess_patient_entry_save(p)
    \/ \E p \in Procs : reassess_patient_alert(p)
    \/ \E p \in Procs : delete_patient(p)
    \/ \E p \in Procs : delete_patient_delete(p)
    \/ \E p \in Procs : delete_patient_assessments(p)
    \/ \E p \in Procs : delete_patient_queue(p)
    \/ \E p \in Procs : delete_patient_alerts(p)
    \/ \E p \in Procs : get_queue(p)
    \/ \E p \in Procs : get_queue_patient(p)
    \/ \E p \in Procs : get_patient(p)
    \/ \E p \in Procs : get_patient_find(p)
    \/ \E p \in Procs : get_patient_count(p)
    \/ \E p \in Procs : acknowledge_alert(p)
    \/ \E p \in Procs : acknowledge_alert_save(p)

Spec == Init /\ [][Next]_vars

\* the sample data with transition and deletion requests only, served
\* within one tick of the clock
InitTransitions ==
    /\ now = 0
    /\ ops = MaxTransitionOps
    /\ nextId = [patient |-> SamplePatients + 1, entry |-> SamplePatients + 1,
                 alert |-> 1]
    /\ patients = sample_patients
    /\ queue = sample_queue
    /\ assessments = <<>>
    /\ alerts = <<>>
    /\ pc = [p \in Procs |-> "idle"]
    /\ loc = [p \in Procs |-> LocInit]
    /\ watch = [p \in Procs |-> {}]
    /\ last = NoResponse
    /\ snapshot = NoSnapshot
    /\ result = NoResult

NextTransitions ==
    \/ \E p \in Procs : start_patient_treatment(p)
    \/ \E p \in Procs : start_patient_treatment_save(p)
    \/ \E p \in Procs : start_patient_treatment_get(p)
    \/ \E p \in Procs : complete_patient_treatment(p)
    \/ \E p \in Procs : complete_patient_treatment_save(p)
    \/ \E p \in Procs : complete_patient_treatment_get(p)
    \/ \E p \in Procs : discharge_patient(p)
    \/ \E p \in Procs : discharge_patient_save(p)
    \/ \E p \in Procs : discharge_patient_get(p)
    \/ \E p \in Procs : update_patient_status(p)
    \/ \E p \in Procs : update_patient_status_save(p)
    \/ \E p \in Procs : update_patient_status_notify(p)
    \/ \E p \in Procs : delete_patient(p)
    \/ \E p \in Procs : delete_patient_delete(p)
    \/ \E p \in Procs : delete_patient_assessments(p)
    \/ \E p \in Procs : delete_patient_queue(p)
    \/ \E p \in Procs : delete_patient_alerts(p)

SpecTransitions == InitTransitions /\ [][NextTransitions]_vars

\* the sample data with requests to start and to complete treatment, over
\* the ticks of the clock
NextTreatment ==
    \/ Tick
    \/ \E p \in Procs : start_patient_treatment(p)
    \/ \E p \in Procs : start_patient_treatment_save(p)
    \/ \E p \in Procs : start_patient_treatment_get(p)
    \/ \E p \in Procs : complete_patient_treatment(p)
    \/ \E p \in Procs : complete_patient_treatment_save(p)
    \/ \E p \in Procs : complete_patient_treatment_get(p)

SpecTreatment == InitTransitions /\ [][NextTreatment]_vars

\* the sample data with dashboard requests beside registrations,
\* re-assessments and starts of treatment
NextDashboard ==
    \/ Tick
    \/ \E p \in Procs : get_dashboard_stats(p)
    \/ \E p \in Procs : get_dashboard_stats_waiting(p)
    \/ \E p \in Procs : get_dashboard_stats_critical(p)
    \/ \E p \in Procs : get_dashboard_stats_level(p)
    \/ \E p \in Procs : get_dashboard_stats_entries(p)
    \/ \E p \in Procs : start_patient_treatment(p)
    \/ \E p \in Procs : start_patient_treatment_save(p)
    \/ \E p \in Procs : start_patient_treatment_get(p)
    \/ \E p \in Procs : create_patient(p)
    \/ \E p \in Procs : create_patient_update(p)
    \/ \E p \in Procs : create_patient_assessment(p)
    \/ \E p \in Procs : create_patient_enqueue(p)
    \/ \E p \in Procs : create_patient_alert(p)
    \/ \E p \in Procs : create_patient_count(p)
    \/ \E p \in Procs : reassess_patient(p)
    \/ \E p \in Procs : reassess_patient_save(p)
    \/ \E p \in Procs : reassess_patient_assessment(p)
    \/ \E p \in Procs : reassess_patient_find(p)
    \/ \E p \in Procs : reassess_patient_entry_save(p)
    \/ \E p \in Procs : reassess_patient_alert(p)

SpecDashboard == InitTransitions /\ [][NextDashboard]_vars

NextSql ==
    \/ Tick
    \/ \E p \in Procs : sql_create_patient(p)
    \/ \E p \in Procs : sql_create_patient_commit(p)
    \/ \E p \in Procs : sql_perform_triage(p)
    \/ \E p \in Procs : sql_perform_triage_wait(p)
    \/ \E p \in Procs : sql_perform_triage_find(p)
    \/ \E p \in Procs : sql_perform_triage_commit(p)
    \/ \E p \in Procs : sql_update_patient_vitals(p)
    \/ \E p \in Procs : sql_update_patient_vitals_commit(p)
    \/ \E p \in Procs : sql_update_patient_vitals_find(p)
    \/ \E p \in Procs : sql_update_patient_vitals_entry_commit(p)
    \/ \E p \in Procs : sql_get_queue_status(p)
    \/ \E p \in Procs : sql_get_queue_status_patient(p)

SpecSql == InitSql /\ [][NextSql]_vars

SpecSqlQueue == InitSqlQueue /\ [][NextSql]_vars


(* ============================== properties ============================ *)
TransitionOps == {"start_treatment", "complete_treatment", "discharge", "update_status"}

\* entry e of the queue as it is stored after the step (NoEntry if deleted)
After(e) ==
    IF \E j \in 1..Len(queue') : queue'[j].id = e.id
    THEN CHOOSE d \in {queue'[j] : j \in 1..Len(queue')} : d.id = e.id
    ELSE NoEntry

\* C1: once an entry's status is completed or discharged, no step of any
\* operation changes the status of that entry again
TerminalStatusIsFinal ==
    [][\A i \in 1..Len(queue) :
          (queue[i].status \in Terminal /\ After(queue[i]) # NoEntry)
             => After(queue[i]).status = queue[i].status]_vars

\* C2: a start_treatment request that finds the entry in a status other
\* than waiting fails and writes nothing
StartOnlyFromWaiting ==
    (last.op = "start_treatment" /\ last.found /\ last.read.status # WAITING)
       => (last.code # 200 /\ last.saved = NoEntry)

\* C3: a complete_treatment request that finds the entry in a status other
\* than in_treatment fails and writes nothing, and no stored entry is
\* completed without a recorded start of treatment
CompleteOnlyFromInTreatment ==
    /\ (last.op = "complete_treatment" /\ last.found
          /\ last.read.status # IN_TREATMENT)
          => (last.code # 200 /\ last.saved = NoEntry)
    /\ \A i \in 1..Len(queue) :
          queue[i].status = COMPLETED => queue[i].treatment_started # None

\* C4: a transition request that ends in an error has written nothing, or
\* has written back the status and timestamps it read
TransitionsAllOrNothing ==
    (last.op \in TransitionOps /\ last.code # 200 /\ last.saved # NoEntry)
       => /\ last.saved.status = last.read.status
          /\ last.saved.treatment_started = last.read.treatment_started
          /\ last.saved.treatment_completed = last.read.treatment_completed

\* C5: a queue operation on a patient without a queue entry answers with
\* the not-found status 404, never with the status of an internal error
NotFoundIsReported ==
    (last.op \in TransitionOps /\ ~last.found) => last.code = 404

\* C6: no patient has two queue entries in a non-terminal status
AtMostOneActiveEntry ==
    \A i, j \in 1..Len(queue) :
       (/\ queue[i].patient_id = queue[j].patient_id
        /\ queue[i].status \notin Terminal
        /\ queue[j].status \notin Terminal) => i = j

\* C6 witness: an assessment found no entry for the patient and its INSERT
\* was refused because the registration had committed one meanwhile
InsertRefused ==
    /\ last.op = "perform_triage"
    /\ last.code = 500
    /\ \E i \in 1..Len(queue) : queue[i].patient_id = last.patient_id

\* C7: the step of a re-assessment that saves the queue entry changes
\* esi_level and priority_score of no entry that is stored in a status other
\* than waiting
ReassessmentRewritesOnlyWaiting ==
    [][\A p \in Procs :
          (pc[p] = "reassess_entry_save" /\ pc'[p] # "reassess_entry_save")
             => \A i \in 1..Len(queue) :
                   queue[i].status # WAITING
                      => /\ After(queue[i]).esi_level = queue[i].esi_level
                         /\ After(queue[i]).priority_score = queue[i].priority_score]_vars

\* C8: the step of a re-assessment that saves the queue entry never changes
\* the status of a stored entry, so that it undoes no finished transition
TransitionNeverUndone ==
    [][\A p \in Procs :
          (pc[p] = "reassess_entry_save" /\ pc'[p] # "reassess_entry_save")
             => \A i \in 1..Len(queue) :
                   After(queue[i]).status = queue[i].status]_vars

RankedBefore(a, b) ==
    \/ a.esi_level < b.esi_level
    \/ a.esi_level = b.esi_level /\ a.priority_score > b.priority_score
    \/ /\ a.esi_level = b.esi_level
       /\ a.priority_score = b.priority_score
       /\ a.entered_queue < b.entered_queue

\* C10: in every listing no row stands before a row that the ranking rule
\* puts first
ListingIsRanked ==
    last.op \in {"get_queue", "get_queue_status"}
       => \A i, j \in 1..Len(last.items) :
             i < j => ~RankedBefore(last.items[j], last.items[i])

\* C11: of any two distinct waiting entries the sort of the listing puts
\* exactly one first, and two listings whose queries return the same
\* documents return them in the same order
RankingIsStrictTotalOrder ==
    /\ \A i, j \in 1..Len(queue) :
          (i # j /\ queue[i].status = WAITING /\ queue[j].status = WAITING)
             => (SortsBefore(queue[i], queue[j]) \/ SortsBefore(queue[j], queue[i]))
    /\ \A p, r \in Procs :
          (/\ pc[p] = "queue_get"
           /\ pc[r] = "queue_get"
           /\ {loc[p].list[i] : i \in 1..Len(loc[p].list)}
                 = {loc[r].list[i] : i \in 1..Len(loc[r].list)})
             => loc[p].list = loc[r].list

\* the 1-based rank of waiting entry e among the waiting entries of q under
\* the ranking rule
Rank(q, e) ==
    1 + Cardinality({i \in 1..Len(q) : q[i].status = WAITING /\ RankedBefore(q[i], e)})

\* C12: the queue position that the registration response and the
\* single-patient read report for a patient whose entry is waiting is the
\* rank of that entry in the queue state they read
PositionIsRank ==
    (/\ last.op \in {"create_patient", "get_patient"}
     /\ last.code = 200
     /\ find_one(queue, last.patient_id) # NoEntry
     /\ find_one(queue, last.patient_id).status = WAITING)
       => last.queue_position = Rank(queue, find_one(queue, last.patient_id))

\* C13: a classification returns an ESI level between 1 and 5 and a
\* confidence between 0 and 1 and never raises, whichever vital signs the
\* patient data leaves out or holds as null
ClassificationNeverRaises ==
    result.kind = "prediction"
       => /\ ~result.raised
          /\ result.esi_level \in 1..5
          /\ result.confidence \in 0..100

\* the patient data the caller of the last classification handed over
ClassifierInput ==
    IF result.caller = "create_patient"
    THEN create_ai_input_data(snapshot)
    ELSE reassess_ai_input_data(snapshot)

\* C14: a classification that did not come from the statistical model is
\* the rule-based result for the same patient data and carries the
\* fallback tag among its reasons; one that came from the statistical
\* model carries no fallback tag
FallbackIsTagged ==
    (result.kind = "prediction" /\ ~result.raised)
       => /\ ~result.statistical
                => /\ result.esi_level = rule_based_prediction(ClassifierInput).esi_level
                   /\ result.confidence = rule_based_prediction(ClassifierInput).confidence
                   /\ FallbackTag \in result.reasons
          /\ result.statistical => FallbackTag \notin result.reasons

\* the ESI 1 criteria of the decision list
esi_1_criterion(d) ==
    \/ d.consciousness_level = "Unresponsive"
    \/ d.bp_systolic < 80 \/ d.bp_systolic > 200
    \/ d.heart_rate > 150 \/ d.heart_rate < 40
    \/ d.o2_saturation < 85
    \/ d.respiratory_rate < 8

\* C15: the rule-based classifier gives ESI 1 to patient data that meets
\* an ESI 1 criterion (unresponsive, systolic pressure below 80 or above
\* 200, heart rate above 150 or below 40, oxygen saturation below 85,
\* respiratory rate below 8) and to no other; bleeding with chest pain and
\* pain 9 gives ESI 1 or 2; pain 1 with normal vitals and no risk flag
\* gives ESI 5
RuleBasedDecisionList ==
    (/\ result.kind = "prediction" /\ ~result.raised /\ ~result.statistical
     /\ result.caller = "create_patient")
       => LET d == ClassifierInput
          IN /\ (result.esi_level = 1) = esi_1_criterion(d)
             /\ (d.bleeding /\ d.chief_complaint = "Chest Pain" /\ d.pain_scale = 9)
                   => result.esi_level <= 2
             /\ (/\ ~esi_1_criterion(d) /\ d.pain_scale = 1 /\ d.bp_systolic = 120
                 /\ ~d.bleeding /\ d.chief_complaint = "Cough")
                   => result.esi_level = 5

\* C16: patient data with consciousness_level Unresponsive and no vital
\* sign given is classified ESI 1 with a confidence of at least 0.9 by the
\* rule-based classifier
UnresponsiveIsLevelOne ==
    (/\ result.kind = "prediction" /\ ~result.statistical
     /\ result.caller = "create_patient"
     /\ snapshot.consciousness_level = "Unresponsive"
     /\ snapshot.bp_systolic \in {Absent, None} /\ snapshot.heart_rate = None
     /\ snapshot.o2_saturation = None /\ snapshot.respiratory_rate = None
     /\ snapshot.pain_scale = None
     /\ ~snapshot.bleeding /\ snapshot.chief_complaint = "Cough")
       => /\ ~result.raised
          /\ result.esi_level = 1
          /\ result.confidence >= 90

\* C17: of two calls of a priority score function with equal wait, age,
\* pain and comorbidities, the one with the lower ESI level returns the
\* strictly larger score, for each of the three functions
ScoreDecreasesWithLevel ==
    (/\ result.kind = "scores"
     /\ snapshot.x.esi_level < snapshot.y.esi_level
     /\ snapshot.x.wait_time = snapshot.y.wait_time
     /\ snapshot.x.age = snapshot.y.age
     /\ snapshot.x.pain_level = snapshot.y.pain_level
     /\ snapshot.x.comorbidities = snapshot.y.comorbidities)
       => result.x > result.y

\* the two lowest levels scored by the handlers' engine after a capped wait
LowestLevelsScored ==
    /\ result.kind = "scores" /\ result.engine = "SimpleAITriageEngine"
    /\ snapshot.x.esi_level = 4 /\ snapshot.y.esi_level = 5
    /\ snapshot.x.wait_time = 300 /\ snapshot.y.wait_time = 300
    /\ snapshot.x.age = snapshot.y.age
    /\ snapshot.x.pain_level = snapshot.y.pain_level
    /\ snapshot.x.comorbidities = snapshot.y.comorbidities
    /\ result.x = result.y + 200

\* C18: a priority score does not decrease when the wait grows, and a
\* patient of ESI level 2 to 5 never reaches the score of an ESI 1 patient
\* of the same age, pain and comorbidities, however long the wait
WaitNeverReachesLevelOne ==
    (/\ result.kind = "scores"
     /\ snapshot.x.age = snapshot.y.age
     /\ snapshot.x.pain_level = snapshot.y.pain_level
     /\ snapshot.x.comorbidities = snapshot.y.comorbidities)
       => /\ (snapshot.x.esi_level = snapshot.y.esi_level
                /\ snapshot.x.wait_time <= snapshot.y.wait_time)
                   => result.x <= result.y
          /\ (snapshot.x.esi_level = 1 /\ snapshot.y.esi_level \in 2..5)
                   => result.y < result.x

\* the score of waiting entry e for the minutes it has waited at time t
ScoreForWait(e, t) ==
    LET patient == Patient_get(patients, e.patient_id)
    IN calculate_priority_score(e.esi_level, Minutes(t - e.entered_queue),
                                patient.age, or_default(patient.pain_scale, 0))

\* entry e has been scored by the triage engine and no request about its
\* patient is under way
Assessed(e) ==
    /\ Patient_get(patients, e.patient_id) # NoPatient
    /\ \E i \in 1..Len(assessments) : assessments[i].patient_id = e.patient_id
    /\ \A p \in Procs : pc[p] # "idle" => loc[p].patient_id # e.patient_id

\* C19: after a turn of the scheduled refresh the stored priority score
\* of every waiting entry the engine has scored is the score for the
\* minutes the patient has waited so far, and so is the score a
\* re-assessment stores
ScoreFollowsWait ==
    /\ last.op = "periodic_updates"
          => \A i \in 1..Len(queue) :
                (queue[i].status = WAITING /\ Assessed(queue[i]))
                   => queue[i].priority_score = ScoreForWait(queue[i], now)
    /\ (last.op = "reassess" /\ last.code = 200 /\ last.saved # NoEntry
        /\ Patient_get(patients, last.patient_id) # NoPatient)
          => last.saved.priority_score = ScoreForWait(last.saved, now)

\* the critical_patient alerts stored for a patient
critical_alerts(patient_id) ==
    {i \in 1..Len(alerts) :
        alerts[i].patient_id = patient_id /\ alerts[i].alert_type = "critical_patient"}

\* C20: when a registration has assessed a patient for the first time,
\* an ESI level of 1 or 2 has a critical_patient alert for the patient
\* (severity critical for ESI 1, high for ESI 2), whether or not the
\* voice announcement succeeded, and an ESI level of 3 to 5 has none
FirstAssessmentAlerts ==
    (/\ last.op = "create_patient" /\ last.code = 200
     /\ find_one(queue, last.patient_id) # NoEntry)
       => LET esi_level == find_one(queue, last.patient_id).esi_level
          IN IF esi_level <= 2
             THEN \E i \in critical_alerts(last.patient_id) :
                     alerts[i].severity = IF esi_level = 1 THEN "critical" ELSE "high"
             ELSE critical_alerts(last.patient_id) = {}

\* the condition_change alerts stored for a patient
condition_alerts(patient_id) ==
    {i \in 1..Len(alerts) :
        alerts[i].patient_id = patient_id /\ alerts[i].alert_type = "condition_change"}

\* C21: when a re-assessment has answered, a condition_change alert for
\* the patient exists if the ESI level it found differs from the level it
\* left, of severity high or critical if the level fell and medium if it
\* rose, and none exists if the level is the same
ConditionChangeAlerts ==
    (last.op = "update_vitals" /\ last.code = 200 /\ last.read # NoEntry
     /\ find_one(queue, last.patient_id) # NoEntry)
       => LET old_esi == last.read.esi_level
              new_esi == find_one(queue, last.patient_id).esi_level
          IN IF new_esi # old_esi
             THEN \E i \in condition_alerts(last.patient_id) :
                     alerts[i].severity \in (IF new_esi < old_esi
                                             THEN {"high", "critical"}
                                             ELSE {"medium"})
             ELSE condition_alerts(last.patient_id) = {}

\* C22: no step removes an alert or changes the alert_type, severity or
\* patient of one; a step changes an alert only by acknowledging it
AlertsAreKept ==
    [][\A i \in 1..Len(alerts) :
          \E j \in 1..Len(alerts') :
             /\ alerts'[j].id = alerts[i].id
             /\ alerts'[j].patient_id = alerts[i].patient_id
             /\ alerts'[j].alert_type = alerts[i].alert_type
             /\ alerts'[j].severity = alerts[i].severity
             /\ alerts[i].acknowledged => alerts'[j].acknowledged]_vars

\* C23: when the waiting and critical counts are the same at two
\* consecutive evaluations of the queue alerts, the second evaluation
\* does not announce an alert the first one announced
QueueAlertsNotRepeated ==
    (result.kind = "announcements" /\ result.steady)
       => \A i, j \in 1..Len(result.history) :
             (/\ result.history[i].evaluation = result.evaluations - 1
              /\ result.history[j].evaluation = result.evaluations)
                => \/ result.history[i].urgency # result.history[j].urgency
                   \/ result.history[i].count # result.history[j].count

\* C24: a listing of the waiting entries answers, and every row reports
\* an elapsed wait of whole minutes that is not negative and an estimated
\* remaining wait of max(0, estimated treatment minutes - elapsed wait)
RemainingWaitIsDefined ==
    last.op = "get_queue_status"
       => /\ last.code = 200
          /\ \A i \in 1..Len(last.items) :
                /\ last.items[i].wait_time_minutes >= 0
                /\ last.items[i].estimated_treatment_time # None
                /\ last.items[i].estimated_remaining_wait =
                      Max(0, last.items[i].estimated_treatment_time
                             - last.items[i].wait_time_minutes)

\* C25: the refresh loop stops only when it is cancelled, and after a
\* turn that failed the loop runs a later turn unless it is cancelled
LoopSurvivesErrors ==
    /\ [][(/\ snapshot.kind = "connections" /\ snapshot.task = "sleeping"
            /\ result'.outcome # "cancelled")
              => snapshot'.task = "sleeping"]_vars
    /\ \A n \in {0, 1} :
          (result.outcome = "failed" /\ snapshot.turn = n)
             ~> (snapshot.turn # n \/ snapshot.task = "none")

\* a turn has failed while a client is connected and the loop is alive
TurnFailedLoopAlive ==
    /\ snapshot.kind = "connections"
    /\ result.outcome = "failed"
    /\ snapshot.task = "sleeping"
    /\ snapshot.active_connections["all"] # {}

\* C30: after a turn of the refresh loop that did not fail, every client
\* that is connected through the /all endpoint has received the
\* dashboard_stats, queue_update and alerts_update messages of the turn
AllClientReceivesUpdates ==
    (snapshot.kind = "connections" /\ result.outcome = "sent")
       => \A c \in snapshot.active_connections["all"] :
             (\A t \in ClientTypes \ {"all"} : c \notin snapshot.active_connections[t])
                => result.received[c] = {MessageTypes[k] : k \in 1..Len(MessageTypes)}

TransitionSavePcs == {"start_save", "complete_save", "discharge_save", "status_save"}

\* ids of the entries a step has written: stored with another content
\* than before the step, or not stored before it
Written ==
    {queue'[j].id : j \in {k \in 1..Len(queue') :
        \A i \in 1..Len(queue) : queue[i] # queue'[k]}}

\* C26: the save of a transition writes one queue entry, the entry of the
\* patient the request names, and every entry of another patient is
\* stored after the step as it was before
TransitionChangesOneEntry ==
    [][\A p \in Procs :
          (pc[p] \in TransitionSavePcs /\ pc'[p] # pc[p])
             => /\ \A i \in 1..Len(queue) :
                      queue[i].patient_id # loc[p].patient_id
                         => After(queue[i]) = queue[i]
                /\ Written \subseteq {loc[p].entry.id}
                /\ \E j \in 1..Len(queue') :
                      /\ queue'[j] = loc[p].entry
                      /\ queue'[j].patient_id = loc[p].patient_id]_vars

\* a transition has answered 200 after changing its patient's entry
\* while another patient's entry is stored
TransitionSavedBesideOthers ==
    /\ last.op \in TransitionOps /\ last.code = 200
    /\ last.saved # last.read
    /\ \E i, j \in 1..Len(queue) :
          /\ queue[i] = last.saved
          /\ queue[j].patient_id # last.patient_id

\* the entry records the whole minutes between the start and the end of
\* the treatment, and the status completed
TreatmentRecorded(e) ==
    /\ e.status = COMPLETED
    /\ e.treatment_started # None /\ e.treatment_completed # None
    /\ e.actual_treatment_time # None
    /\ LET seconds == (e.treatment_completed - e.treatment_started) * TickSeconds
       IN /\ e.actual_treatment_time * 60 <= seconds
          /\ seconds < (e.actual_treatment_time + 1) * 60

TimestampsFollowStatus ==
    \A i \in 1..Len(queue) :
       LET e == queue[i] IN
       /\ e.treatment_started # None => e.entered_queue <= e.treatment_started
       /\ e.treatment_completed # None => e.entered_queue <= e.treatment_completed
       /\ (e.treatment_started # None /\ e.treatment_completed # None)
             => e.treatment_started <= e.treatment_completed
       /\ e.status \in {IN_TREATMENT, COMPLETED} => e.treatment_started # None
       /\ e.treatment_completed # None => e.status = COMPLETED

\* C29: in every dashboard response waiting_patients is the sum of the
\* five esi_distribution counts and critical_patients is the level 1 count
\* plus the level 2 count
DashboardIsConsistent ==
    last.op = "dashboard_stats"
       => LET d == last.stats.esi_distribution IN
          /\ last.stats.waiting_patients = d[1] + d[2] + d[3] + d[4] + d[5]
          /\ last.stats.critical_patients = d[1] + d[2]

====
